---- MODULE Spec2Model ----
(***************************************************************************)
(* A model of image2-rs's I/O adapters:                                    *)
(*   src/src/color.rs      the colorspace tags                             *)
(*   src/src/io/magick.rs  the ImageMagick/GraphicsMagick adapter          *)
(*   src/src/io/v4l.rs     the rscam capture adapter                       *)
(* Strings that the code only passes along (argument tokens) are TLA+      *)
(* strings; byte streams that the code inspects (identify's standard       *)
(* output) are sequences of byte values.                                   *)
(***************************************************************************)
EXTENDS Integers, Sequences, FiniteSets, TLC

VARIABLES
    idStdout,   \* bytes the identify subprocess has put on its standard output
    idPhase,    \* "running" | "exited" | "nostart" | "parsed"
    shapeRes,   \* what get_image_shape returned for idStdout
    DEFAULT,    \* the process-wide default Magick (static mut DEFAULT)
    pc,         \* where the calling thread is inside read / write / encode
    call,       \* the running call: its receiver and its generic and value inputs
    raced,      \* set_default ran on another thread since the call began
    log,        \* subprocesses the call has started so far, with their argv
    shape,      \* the shape read() got from get_image_shape
    proc,       \* the convert child of write / encode: pipes, progress, exit
    written,    \* bytes of image.buffer() that write_all has handed to the pipe
    waited,     \* proc.wait() has been entered
    result,     \* the call's return value
    cam,        \* the Webcam value (width, height, handle)
    captures,   \* what each capture() call returned, in order
    frames      \* number of frames the device has delivered

shapeVars == <<idStdout, idPhase, shapeRes>>
magickVars == <<DEFAULT, pc, call, raced, log, shape, proc, written, waited, result>>
camVars == <<cam, captures, frames>>
vars == <<idStdout, idPhase, shapeRes, DEFAULT, pc, call, raced, log, shape, proc,
          written, waited, result, cam, captures, frames>>

----------------------------------------------------------------------------
(* Bounds of the model *)

MaxOutLen == 4      \* longest identify output explored byte by byte
ReadOutLen == 3     \* longest identify output explored inside read()
MaxStdout == 5      \* most bytes convert puts on standard output in read()
MaxDim == 2         \* largest image width / height handed to write / encode
MaxData == 1        \* most elements in an image's data vector
PipeCap == 2        \* capacity of an OS pipe, in bytes
MaxEncoded == 3     \* largest encoded output of the external tool, in bytes
MaxCam == 2         \* largest width / height a Webcam is opened with
MaxFrameLen == 2    \* most bytes in a delivered frame
MaxCaptures == 3    \* capture() calls explored

----------------------------------------------------------------------------
(* Results *)

Ok(v) == [ok |-> TRUE, val |-> v]
Err(e) == [ok |-> FALSE, err |-> e]
None == [none |-> TRUE]

----------------------------------------------------------------------------
(* color.rs *)

Gray == [name |-> "gray", channels |-> 1, has_alpha |-> FALSE]
Rgb == [name |-> "rgb", channels |-> 3, has_alpha |-> FALSE]
Bgr == [name |-> "bgr", channels |-> 3, has_alpha |-> FALSE]
RgbPacked == [name |-> "rgb_packed", channels |-> 1, has_alpha |-> FALSE]
Rgba == [name |-> "rgba", channels |-> 4, has_alpha |-> TRUE]
Bgra == [name |-> "bgra", channels |-> 4, has_alpha |-> TRUE]
RgbaPacked == [name |-> "rgba_packed", channels |-> 1, has_alpha |-> FALSE]
Cmyk == [name |-> "cmyk", channels |-> 4, has_alpha |-> FALSE]
Yuv == [name |-> "yuv", channels |-> 3, has_alpha |-> FALSE]

Colors == {Gray, Rgb, Bgr, RgbPacked, Rgba, Bgra, RgbaPacked, Cmyk, Yuv}

(* crate::ty::Type: the element types, by size_of::<T>() and T::is_float() *)
U8 == [name |-> "u8", size |-> 1, is_float |-> FALSE]
U16 == [name |-> "u16", size |-> 2, is_float |-> FALSE]
F32 == [name |-> "f32", size |-> 4, is_float |-> TRUE]

Types == {U8, U16, F32}

(* crate::image_buf::ImageBuf: new_from stores its arguments unchecked;    *)
(* shape() is (width, height, C::channels()); buffer() is the data's bytes *)
ImageBuf_new_from(width, height, data) ==
    [width |-> width, height |-> height, data |-> data]

ImageBuf_shape(image, C) == <<image.width, image.height, C.channels>>

ImageBuf_buffer_len(image, T) == Len(image.data) * T.size

----------------------------------------------------------------------------
(* magick.rs: presets and argument construction *)

IM == [identify |-> <<"identify">>, convert |-> <<"convert">>]
GM == [identify |-> <<"gm", "identify">>, convert |-> <<"gm", "convert">>]
Presets == {IM, GM}

(* Command::new(prefix[0]).args(prefix[1..]) *)
Command_new(prefix) == <<Head(prefix)>> \o Tail(prefix)

kind(C) == C.name \o ":-"

(* a depth given in bytes instead of bits *)
depth_in_bytes(T, cmd) ==
    cmd \o <<"-depth", ToString(T.size)>>
        \o (IF T.is_float THEN <<"-define", "quantum:format=floating-point">> ELSE <<>>)

depth(T, cmd) ==
    cmd \o <<"-depth", ToString(T.size * 8)>>
        \o (IF T.is_float THEN <<"-define", "quantum:format=floating-point">> ELSE <<>>)

identify_argv(self, path) ==
    Command_new(self.identify) \o <<"-format", "%w %h">> \o <<path>>

read_argv(self, path, T, C) ==
    depth(T, Command_new(self.convert) \o <<path>>) \o <<kind(C)>>

size_token(image, C) ==
    ToString(ImageBuf_shape(image, C)[1]) \o "x" \o ToString(ImageBuf_shape(image, C)[2])

write_argv(self, path, T, C, image) ==
    depth(T, Command_new(self.convert))
        \o <<"-size", size_token(image, C)>> \o <<kind(C)>> \o <<path>>

encode_argv(self, format, T, C, image) ==
    depth(T, Command_new(self.convert))
        \o <<"-size", size_token(image, C)>> \o <<kind(C)>> \o <<format \o ":-">>

----------------------------------------------------------------------------
(* magick.rs: get_image_shape *)

(* the separator of shape.split(' ') *)
SP == 32

(* the bytes identify's output is built from: ' ', '\n', '+', '0', '2',    *)
(* 'x' and 0xFF (a byte no UTF-8 text contains)                            *)
Bytes == {SP, 10, 43, 48, 50, 120, 255}

(* char::is_whitespace on ASCII *)
IsWhitespace(b) == b \in {9, 10, 11, 12, 13, 32}

IsDigit(b) == b >= 48 /\ b <= 57

(* String::from_utf8 succeeds: over Bytes, the ASCII bytes are the valid   *)
(* ones and 0xFF can occur in no UTF-8 sequence                            *)
from_utf8_ok(bytes) == \A i \in 1..Len(bytes) : bytes[i] < 128

(* a split that also breaks the text at every other whitespace character  *)
RECURSIVE split_any_whitespace(_, _)
split_any_whitespace(s, sep) ==
    IF \A i \in 1..Len(s) : ~(s[i] = sep \/ s[i] \in {9, 10, 11, 12, 13})
    THEN <<s>>
    ELSE LET i == CHOOSE k \in 1..Len(s) :
                      /\ (s[k] = sep \/ s[k] \in {9, 10, 11, 12, 13})
                      /\ \A m \in 1..(k - 1) : ~(s[m] = sep \/ s[m] \in {9, 10, 11, 12, 13})
         IN <<SubSeq(s, 1, i - 1)>> \o split_any_whitespace(SubSeq(s, i + 1, Len(s)), sep)

(* str::split(' '): the pieces between single space characters; n spaces   *)
(* give n + 1 pieces, empty ones included                                  *)
RECURSIVE split(_, _)
split(s, sep) ==
    IF \A i \in 1..Len(s) : s[i] # sep
    THEN <<s>>
    ELSE LET i == CHOOSE k \in 1..Len(s) : s[k] = sep /\ \A m \in 1..(k - 1) : s[m] # sep
         IN <<SubSeq(s, 1, i - 1)>> \o split(SubSeq(s, i + 1, Len(s)), sep)

RECURSIVE trim_start(_)
trim_start(s) ==
    IF s # <<>> /\ IsWhitespace(Head(s)) THEN trim_start(Tail(s)) ELSE s

RECURSIVE trim_end(_)
trim_end(s) ==
    IF s # <<>> /\ IsWhitespace(s[Len(s)]) THEN trim_end(SubSeq(s, 1, Len(s) - 1)) ELSE s

trim(s) == trim_end(trim_start(s))

(* the digit loop of usize::from_str: result = result * 10 + digit; the    *)
(* outputs explored are too short to overflow a usize                      *)
RECURSIVE parse_digits(_, _)
parse_digits(s, acc) ==
    IF s = <<>> THEN Ok(acc)
    ELSE IF ~IsDigit(Head(s)) THEN Err("InvalidDigit")
    ELSE parse_digits(Tail(s), acc * 10 + (Head(s) - 48))

(* str::parse::<usize>(): empty is an error, a lone sign is an error, one  *)
(* leading '+' is accepted, '-' is an invalid digit for an unsigned type   *)
parse_usize(s) ==
    IF s = <<>> THEN Err("Empty")
    ELSE IF Len(s) = 1 /\ Head(s) \in {43, 45} THEN Err("InvalidDigit")
    ELSE IF Head(s) = 43 THEN parse_digits(Tail(s), 0)
    ELSE parse_digits(s, 0)

(* identify: [ran |-> FALSE] when the process could not be started, else   *)
(* [ran |-> TRUE, stdout |-> bytes]                                        *)
get_image_shape(identify) ==
    IF ~identify.ran THEN Err("InvalidImageShape")
    ELSE IF ~from_utf8_ok(identify.stdout) THEN Err("InvalidImageShape")
    ELSE LET pieces == split(identify.stdout, SP)
             t == [i \in 1..Len(pieces) |-> parse_usize(trim(pieces[i]))]
         IN IF Len(t) < 2 THEN Err("InvalidImageShape")
            ELSE IF t[1].ok /\ t[2].ok THEN Ok(<<t[1].val, t[2].val>>)
            ELSE Err("InvalidImageShape")

RECURSIVE ByteStrings(_, _)
ByteStrings(alphabet, n) ==
    IF n = 0 THEN {<<>>}
    ELSE LET shorter == ByteStrings(alphabet, n - 1)
         IN shorter \cup {Append(s, b) : s \in {x \in shorter : Len(x) = n - 1},
                                         b \in alphabet}

(* what running identify inside read() may give: it cannot be started, or *)
(* it prints some text of spaces, digits and other characters              *)
IdentifyOutcomes ==
    {[ran |-> FALSE]}
        \cup {[ran |-> TRUE, stdout |-> s] : s \in ByteStrings({SP, 48, 50, 120}, ReadOutLen)}

----------------------------------------------------------------------------
(* The shape query on its own: identify writes its output byte by byte,    *)
(* exits (or could not be started), and get_image_shape parses the output  *)

InitShape ==
    /\ idStdout = <<>>
    /\ idPhase = "running"
    /\ shapeRes = None

IdentifyEmit(b) ==
    /\ idPhase = "running"
    /\ Len(idStdout) < MaxOutLen
    /\ idStdout' = Append(idStdout, b)
    /\ UNCHANGED <<idPhase, shapeRes>>
    /\ UNCHANGED <<magickVars, camVars>>

IdentifyExit ==
    /\ idPhase = "running"
    /\ idPhase' = "exited"
    /\ UNCHANGED <<idStdout, shapeRes>>
    /\ UNCHANGED <<magickVars, camVars>>

IdentifyNoStart ==
    /\ idPhase = "running"
    /\ idStdout = <<>>
    /\ idPhase' = "nostart"
    /\ UNCHANGED <<idStdout, shapeRes>>
    /\ UNCHANGED <<magickVars, camVars>>

ShapeQuery ==
    /\ idPhase \in {"exited", "nostart"}
    /\ shapeRes' = get_image_shape(IF idPhase = "nostart" THEN [ran |-> FALSE]
                                   ELSE [ran |-> TRUE, stdout |-> idStdout])
    /\ idPhase' = IF idPhase = "nostart" THEN "parsed_nostart" ELSE "parsed"
    /\ UNCHANGED idStdout
    /\ UNCHANGED <<magickVars, camVars>>

NextShape ==
    \/ \E b \in Bytes : IdentifyEmit(b)
    \/ IdentifyExit
    \/ IdentifyNoStart
    \/ ShapeQuery

----------------------------------------------------------------------------
(* magick.rs: DEFAULT, set_default, and the calls read / write / encode.   *)
(* A call is made on a Magick value (IM.read(..)) or through the free      *)
(* functions, whose receiver is a reference to the static DEFAULT.         *)

Paths == {"a.png"}
Formats == {"png"}

Images ==
    { ImageBuf_new_from(w, h, [i \in 1..n |-> 0]) :
        w \in 1..MaxDim, h \in 1..MaxDim, n \in 0..MaxData }

(* The inputs of write and encode: every element type with every          *)
(* colorspace on one image, and every image with one type and colorspace.  *)
WriteInputs ==
    { in \in Types \X Colors \X Images :
        \/ in[3] = ImageBuf_new_from(1, 1, <<>>)
        \/ in[1] = U8 /\ in[2] = Rgb }

NoProc == [spawned |-> FALSE]

InitMagick ==
    /\ DEFAULT = IM
    /\ pc = "idle"
    /\ call = None
    /\ raced = FALSE
    /\ log = <<>>
    /\ shape = <<>>
    /\ proc = NoProc
    /\ written = 0
    /\ waited = FALSE
    /\ result = None

(* pub fn set_default: an unsynchronised store to the static; any thread   *)
(* may run it at any time, also while a call is in flight.  Once the call  *)
(* has started its last subprocess it reads the static no more, and a      *)
(* store commutes with every later step: those interleavings are left out. *)
set_default(magick) ==
    /\ pc \in {"idle", "identify", "convert", "spawn"}
    /\ DEFAULT' = magick
    /\ raced' = (pc # "idle")
    /\ UNCHANGED <<pc, call, log, shape, proc, written, waited, result>>
    /\ UNCHANGED <<shapeVars, camVars>>

(* The Magick values a read of self.identify / self.convert may observe.   *)
(* A method call owns its receiver.  A free-function call reads the static *)
(* through a shared reference: it observes the current DEFAULT, or, when   *)
(* set_default has raced with the call, possibly the value the static held *)
(* when the call began (the load may be hoisted: the access is a data      *)
(* race).                                                                  *)
(* free functions that call IM instead of DEFAULT *)
self_values_IM == IF call.free THEN {IM} ELSE {call.magick}

self_values ==
    IF call.free
    THEN {DEFAULT} \cup (IF raced THEN {call.magick} ELSE {})
    ELSE {call.magick}

BeginCall(c) ==
    /\ pc = "idle"
    /\ call' = c
    /\ UNCHANGED <<DEFAULT, raced, log, shape, proc, written, waited, result>>
    /\ UNCHANGED <<shapeVars, camVars>>

(* the call has returned and its locals are gone; the thread may call again *)
Return ==
    /\ pc = "done"
    /\ pc' = "idle"
    /\ call' = None
    /\ raced' = FALSE
    /\ log' = <<>>
    /\ shape' = <<>>
    /\ proc' = NoProc
    /\ written' = 0
    /\ waited' = FALSE
    /\ result' = None
    /\ UNCHANGED DEFAULT
    /\ UNCHANGED <<shapeVars, camVars>>

(* Magick::read, and the free function read (free = TRUE) *)
read(free, magick, path, T, C) ==
    /\ BeginCall([op |-> "read", free |-> free,
                  magick |-> IF free THEN DEFAULT ELSE magick,
                  path |-> path, T |-> T, C |-> C])
    /\ pc' = "identify"

(* Magick::write, and the free function write (free = TRUE) *)
write(free, magick, path, T, C, image) ==
    /\ BeginCall([op |-> "write", free |-> free,
                  magick |-> IF free THEN DEFAULT ELSE magick,
                  path |-> path, T |-> T, C |-> C, image |-> image])
    /\ pc' = "spawn"

(* Magick::encode *)
encode(magick, format, T, C, image) ==
    /\ BeginCall([op |-> "encode", free |-> FALSE, magick |-> magick,
                  path |-> format, T |-> T, C |-> C, image |-> image])
    /\ pc' = "spawn"

LogEntry(tool, self, argv, ran) ==
    [tool |-> tool, used |-> self, argv |-> argv, ran |-> ran,
     default |-> DEFAULT, raced |-> raced]

(* a read that goes on to convert after a failed shape query *)
ReadShape_ignore_error ==
    /\ pc = "identify"
    /\ \E self \in self_values, identify \in IdentifyOutcomes :
         /\ log' = Append(log, LogEntry("identify", self,
                                        identify_argv(self, call.path), identify.ran))
         /\ LET r == get_image_shape(identify)
            IN shape' = IF r.ok THEN r.val ELSE <<0, 0>>
    /\ pc' = "convert"
    /\ UNCHANGED <<DEFAULT, call, raced, proc, written, waited, result>>
    /\ UNCHANGED <<shapeVars, camVars>>

(* read, step 1: the shape query *)
ReadShape ==
    /\ pc = "identify"
    /\ \E self \in self_values, identify \in IdentifyOutcomes :
         /\ log' = Append(log, LogEntry("identify", self,
                                        identify_argv(self, call.path), identify.ran))
         /\ LET r == get_image_shape(identify)
            IN IF r.ok
               THEN /\ shape' = r.val
                    /\ pc' = "convert"
                    /\ UNCHANGED result
               ELSE /\ result' = r
                    /\ pc' = "done"
                    /\ UNCHANGED shape
    /\ UNCHANGED <<DEFAULT, call, raced, proc, written, waited>>
    /\ UNCHANGED <<shapeVars, camVars>>

(* Vec::from_raw_parts(ptr as *mut T, len / size_of::<T>(), ..): the bytes *)
(* regrouped into len / size elements; trailing bytes are not elements.    *)
(* For T wider than a byte the allocation's layout is not T's, which Rust  *)
(* leaves undefined; the length of the vector is len / size in any case,   *)
(* and nothing here reads the elements.                                    *)
from_raw_parts(stdout, T) ==
    [i \in 1..(Len(stdout) \div T.size) |->
        SubSeq(stdout, (i - 1) * T.size + 1, i * T.size)]

(* read, steps 2-4: run convert to completion, wrap its standard output *)
ReadConvert ==
    /\ pc = "convert"
    /\ \E self \in self_values, ran \in BOOLEAN, n \in 0..MaxStdout :
         /\ log' = Append(log, LogEntry("convert", self,
                                        read_argv(self, call.path, call.T, call.C), ran))
         /\ result' = IF ~ran THEN Err("InvalidImageData")
                      ELSE Ok(ImageBuf_new_from(shape[1], shape[2],
                                                from_raw_parts([i \in 1..n |-> 0], call.T)))
    /\ pc' = "done"
    /\ UNCHANGED <<DEFAULT, call, raced, shape, proc, written, waited>>
    /\ UNCHANGED <<shapeVars, camVars>>

(* image.buffer().len() *)
buffer_len == ImageBuf_buffer_len(call.image, call.T)

Min(a, b) == IF a < b THEN a ELSE b

(* write / encode: build the command and cmd.spawn().  The child gets a    *)
(* pipe on standard input (and, for encode, on standard output); `encoded` *)
(* is the size of what the tool is going to produce on that pipe.          *)
Spawn ==
    /\ pc = "spawn"
    /\ \E self \in self_values, ok \in BOOLEAN,
          encoded \in (IF call.op = "encode" THEN 0..MaxEncoded ELSE {0}) :
         /\ log' = Append(log, LogEntry("convert", self,
                IF call.op = "write"
                THEN write_argv(self, call.path, call.T, call.C, call.image)
                ELSE encode_argv(self, call.path, call.T, call.C, call.image), ok))
         /\ IF ok
            THEN /\ proc' = [spawned |-> TRUE,
                             stdinOpen |-> TRUE,   \* the adapter holds ChildStdin
                             stdinBuf |-> 0,       \* bytes in the stdin pipe
                             readOpen |-> TRUE,    \* the child holds the read end
                             consumed |-> 0,       \* bytes the child has read
                             phase |-> "reading",  \* reading | emitting
                             toEmit |-> encoded,   \* output still to be written
                             stdoutBuf |-> 0,      \* bytes in the stdout pipe
                             exited |-> FALSE,
                             code |-> 0,
                             crashed |-> FALSE,
                             waitFailed |-> FALSE, \* wait(2) gave an error
                             readFailed |-> FALSE] \* read(2) gave an error
                 /\ pc' = "write"
                 /\ UNCHANGED result
            ELSE /\ result' = Err("UnableToExecuteCommand")
                 /\ pc' = "done"
                 /\ UNCHANGED proc
    /\ UNCHANGED <<DEFAULT, call, raced, shape, written, waited>>
    /\ UNCHANGED <<shapeVars, camVars>>

(* stdin.write_all(image.buffer()): one write(2) moves as many bytes as    *)
(* the pipe has room for, and blocks while the pipe is full                *)
WriteChunk ==
    /\ pc = "write"
    /\ written < buffer_len
    /\ proc.readOpen
    /\ proc.stdinBuf < PipeCap
    /\ LET n == Min(buffer_len - written, PipeCap - proc.stdinBuf)
       IN /\ written' = written + n
          /\ proc' = [proc EXCEPT !.stdinBuf = @ + n]
    /\ UNCHANGED <<DEFAULT, pc, call, raced, log, shape, waited, result>>
    /\ UNCHANGED <<shapeVars, camVars>>

(* write(2) on a pipe whose read end is closed fails (EPIPE): write_all    *)
(* returns Err, the function returns, and stdin is dropped on the way out  *)
WriteFail ==
    /\ pc = "write"
    /\ written < buffer_len
    /\ ~proc.readOpen
    /\ result' = Err("ErrorWritingImage")
    /\ proc' = [proc EXCEPT !.stdinOpen = FALSE]
    /\ pc' = "done"
    /\ UNCHANGED <<DEFAULT, call, raced, log, shape, written, waited>>
    /\ UNCHANGED <<shapeVars, camVars>>

(* a write whose stdin handle outlives the block *)
CloseStdin_keep_open ==
    /\ pc = "write"
    /\ written = buffer_len
    /\ pc' = "closed"
    /\ UNCHANGED <<DEFAULT, call, raced, log, shape, proc, written, waited, result>>
    /\ UNCHANGED <<shapeVars, camVars>>

(* write_all returned Ok; flush; the block ends and stdin is dropped *)
CloseStdin ==
    /\ pc = "write"
    /\ written = buffer_len
    /\ proc' = [proc EXCEPT !.stdinOpen = FALSE]
    /\ pc' = "closed"
    /\ UNCHANGED <<DEFAULT, call, raced, log, shape, written, waited, result>>
    /\ UNCHANGED <<shapeVars, camVars>>

(* proc.wait() is entered *)
WaitBegin ==
    /\ pc = "closed"
    /\ waited' = TRUE
    /\ pc' = "wait"
    /\ UNCHANGED <<DEFAULT, call, raced, log, shape, proc, written, result>>
    /\ UNCHANGED <<shapeVars, camVars>>

(* a wait that treats a non-zero exit status as a failure *)
WaitOk_check_status ==
    /\ pc = "wait"
    /\ proc.exited
    /\ IF proc.code # 0
       THEN /\ result' = Err("UnableToExecuteCommand")
            /\ pc' = "done"
       ELSE IF call.op = "write"
       THEN /\ result' = Ok("unit")
            /\ pc' = "done"
       ELSE /\ pc' = "drain"
            /\ UNCHANGED result
    /\ UNCHANGED <<DEFAULT, call, raced, log, shape, proc, written, waited>>
    /\ UNCHANGED <<shapeVars, camVars>>

(* proc.wait() returns Ok once the child has exited, whatever its exit     *)
(* status: write returns Ok(()), encode goes on to read standard output    *)
WaitOk ==
    /\ pc = "wait"
    /\ proc.exited
    /\ IF call.op = "write"
       THEN /\ result' = Ok("unit")
            /\ pc' = "done"
       ELSE /\ pc' = "drain"
            /\ UNCHANGED result
    /\ UNCHANGED <<DEFAULT, call, raced, log, shape, proc, written, waited>>
    /\ UNCHANGED <<shapeVars, camVars>>

(* proc.wait() returns Err *)
WaitErr ==
    /\ pc = "wait"
    /\ proc' = [proc EXCEPT !.waitFailed = TRUE]
    /\ result' = Err("UnableToExecuteCommand")
    /\ pc' = "done"
    /\ UNCHANGED <<DEFAULT, call, raced, log, shape, written, waited>>
    /\ UNCHANGED <<shapeVars, camVars>>

(* encode: proc.stdout.unwrap().read_to_end(&mut buffer).  The child has   *)
(* exited, so the pipe holds what is left of its output, then EOF.         *)
Drain ==
    /\ pc = "drain"
    /\ \E ok \in BOOLEAN :
         /\ result' = IF ok THEN Ok([i \in 1..proc.stdoutBuf |-> 0])
                      ELSE Err("InvalidImageData")
         /\ proc' = [proc EXCEPT !.stdoutBuf = 0, !.readFailed = ~ok]
    /\ pc' = "done"
    /\ UNCHANGED <<DEFAULT, call, raced, log, shape, written, waited>>
    /\ UNCHANGED <<shapeVars, camVars>>

(* The child process.  It reads its standard input to the end, then writes *)
(* its result (encode: to the standard-output pipe, blocking while the     *)
(* pipe is full), then exits.                                              *)
ChildRunning == pc \in {"write", "closed", "wait"} /\ proc.spawned /\ ~proc.exited

ToolRead ==
    /\ ChildRunning
    /\ proc.phase = "reading"
    /\ proc.stdinBuf > 0
    /\ proc' = [proc EXCEPT !.consumed = @ + proc.stdinBuf, !.stdinBuf = 0]
    /\ UNCHANGED <<DEFAULT, pc, call, raced, log, shape, written, waited, result>>
    /\ UNCHANGED <<shapeVars, camVars>>

ToolEof ==
    /\ ChildRunning
    /\ proc.phase = "reading"
    /\ proc.stdinBuf = 0
    /\ ~proc.stdinOpen
    /\ proc' = [proc EXCEPT !.phase = "emitting"]
    /\ UNCHANGED <<DEFAULT, pc, call, raced, log, shape, written, waited, result>>
    /\ UNCHANGED <<shapeVars, camVars>>

ToolEmit ==
    /\ ChildRunning
    /\ proc.phase = "emitting"
    /\ proc.toEmit > 0
    /\ proc.stdoutBuf < PipeCap
    /\ LET n == Min(proc.toEmit, PipeCap - proc.stdoutBuf)
       IN proc' = [proc EXCEPT !.toEmit = @ - n, !.stdoutBuf = @ + n]
    /\ UNCHANGED <<DEFAULT, pc, call, raced, log, shape, written, waited, result>>
    /\ UNCHANGED <<shapeVars, camVars>>

ToolExit ==
    /\ ChildRunning
    /\ proc.phase = "emitting"
    /\ proc.toEmit = 0
    /\ \E code \in {0, 1} :
         proc' = [proc EXCEPT !.exited = TRUE, !.readOpen = FALSE, !.code = code]
    /\ UNCHANGED <<DEFAULT, pc, call, raced, log, shape, written, waited, result>>
    /\ UNCHANGED <<shapeVars, camVars>>

(* a tool that fails: it exits early, leaving its input unread *)
ToolCrash ==
    /\ ChildRunning
    /\ proc' = [proc EXCEPT !.exited = TRUE, !.readOpen = FALSE, !.code = 1,
                            !.crashed = TRUE]
    /\ UNCHANGED <<DEFAULT, pc, call, raced, log, shape, written, waited, result>>
    /\ UNCHANGED <<shapeVars, camVars>>

----------------------------------------------------------------------------
(* v4l.rs: Webcam.  The rscam handle is the library's: Camera::new opens   *)
(* the device, start(&cfg) either fails or leaves the camera streaming at  *)
(* cfg.resolution, and every frame it then hands out carries that          *)
(* resolution together with the frame's bytes.                             *)

Devices == {"/dev/video0"}

InitCam ==
    /\ cam = None
    /\ captures = <<>>
    /\ frames = 0

(* a configuration with the two dimensions exchanged *)
config_swapped(width, height) ==
    [format |-> "RGB3", resolution |-> <<height, width>>, interval |-> <<1, 30>>]

(* Webcam::config *)
config(width, height) ==
    [format |-> "RGB3", resolution |-> <<width, height>>, interval |-> <<1, 30>>]

(* Webcam::new: rscam::Camera::new(device)? *)
Webcam_new(device, width, height) ==
    /\ cam = None
    /\ \E opened \in BOOLEAN :
         cam' = IF opened
                THEN [width |-> width, height |-> height,
                      handle |-> [device |-> device, streaming |-> FALSE,
                                  cfg |-> None]]
                ELSE None
    /\ UNCHANGED <<captures, frames>>
    /\ UNCHANGED <<shapeVars, magickVars>>

(* Webcam::start: self.handle.start(&Self::config(self.width, self.height)) *)
Webcam_start ==
    /\ cam # None
    /\ ~cam.handle.streaming
    /\ \E accepted \in BOOLEAN :
         cam' = IF accepted
                THEN [cam EXCEPT !.handle.streaming = TRUE,
                                 !.handle.cfg = config(cam.width, cam.height)]
                ELSE cam
    /\ UNCHANGED <<captures, frames>>
    /\ UNCHANGED <<shapeVars, magickVars>>

(* Webcam::capture: self.handle.capture()?, then the frame's resolution    *)
(* and a copy of its bytes go into an ImageBuf<u8, Rgb>                    *)
Webcam_capture ==
    /\ cam # None
    /\ Len(captures) < MaxCaptures
    /\ \E delivered \in BOOLEAN, n \in 0..MaxFrameLen :
         IF cam.handle.streaming /\ delivered
         THEN LET frame == [resolution |-> cam.handle.cfg.resolution,
                            bytes |-> [i \in 1..n |-> 0]]
                  width == frame.resolution[1]
                  height == frame.resolution[2]
              IN /\ captures' = Append(captures,
                                       Ok(ImageBuf_new_from(width, height, frame.bytes)))
                 /\ frames' = frames + 1
         ELSE /\ captures' = Append(captures, Err("io"))
              /\ UNCHANGED frames
    /\ UNCHANGED cam
    /\ UNCHANGED <<shapeVars, magickVars>>

NextCam ==
    \/ \E d \in Devices, w \in 1..MaxCam, h \in 1..MaxCam : Webcam_new(d, w, h)
    \/ Webcam_start
    \/ Webcam_capture

----------------------------------------------------------------------------
(* Specifications *)

Init == InitShape /\ InitMagick /\ InitCam

(* the shape query on every identify output up to MaxOutLen bytes *)
ShapeSpec == Init /\ [][NextShape]_vars

(* the adapter's calls, with set_default running on another thread *)
NextMagick ==
    \/ \E m \in Presets : set_default(m)
    \/ \E free \in BOOLEAN, m \in Presets, p \in Paths, T \in Types, C \in Colors :
         read(free, m, p, T, C)
    \/ \E free \in BOOLEAN, m \in Presets, p \in Paths, in \in WriteInputs :
         write(free, m, p, in[1], in[2], in[3])
    \/ \E m \in Presets, f \in Formats, in \in WriteInputs :
         encode(m, f, in[1], in[2], in[3])
    \/ ReadShape
    \/ ReadConvert
    \/ Spawn
    \/ WriteChunk
    \/ WriteFail
    \/ CloseStdin
    \/ WaitBegin
    \/ WaitOk
    \/ WaitErr
    \/ Drain
    \/ ToolRead
    \/ ToolEof
    \/ ToolEmit
    \/ ToolExit
    \/ ToolCrash
    \/ Return

Spec == Init /\ [][NextMagick]_vars

(* encode on its own, with the scheduling the operating system gives: the   *)
(* calling thread and the child each take their next step when they can.   *)
(* Errors of wait(2) and a failing tool are possible, never guaranteed.    *)
NextEncode ==
    \/ \E m \in Presets, f \in Formats, image \in Images : encode(m, f, U8, Rgb, image)
    \/ Spawn
    \/ WriteChunk
    \/ WriteFail
    \/ CloseStdin
    \/ WaitBegin
    \/ WaitOk
    \/ WaitErr
    \/ Drain
    \/ ToolRead
    \/ ToolEof
    \/ ToolEmit
    \/ ToolExit
    \/ ToolCrash
    \/ Return

AdapterStep ==
    Spawn \/ WriteChunk \/ WriteFail \/ CloseStdin \/ WaitBegin \/ WaitOk \/ Drain

ToolStep == ToolRead \/ ToolEof \/ ToolEmit \/ ToolExit

FairSpec ==
    /\ Init
    /\ [][NextEncode]_vars
    /\ WF_vars(AdapterStep)
    /\ WF_vars(ToolStep)

CamSpec == Init /\ [][NextCam]_vars

----------------------------------------------------------------------------
(* Properties *)

InCall(op) == pc # "idle" /\ call.op = op

(* C1: every buffer that read returns has width * height * channels        *)
(* elements, whatever convert put on its standard output.                  *)
C1_BufferMatchesShape ==
    (InCall("read") /\ pc = "done" /\ result.ok) =>
        Len(result.val.data) = result.val.width * result.val.height * call.C.channels

(* The whitespace-separated tokens of a text (str::split_whitespace) *)
RECURSIVE Tokens(_)
Tokens(s) ==
    LET t == trim_start(s)
    IN IF t = <<>> THEN <<>>
       ELSE LET ends == {k \in 1..Len(t) : IsWhitespace(t[k])}
                n == IF ends = {} THEN Len(t) + 1
                     ELSE CHOOSE k \in ends : \A m \in ends : k <= m
            IN <<SubSeq(t, 1, n - 1)>> \o Tokens(SubSeq(t, n, Len(t)))

ShapeQueried == idPhase \in {"parsed", "parsed_nostart"}

(* C2 as stated: the shape query succeeds exactly when identify ran, its   *)
(* output is UTF-8 and its first two whitespace-separated tokens parse as  *)
(* positive integers, which are then the shape; every failure is           *)
(* InvalidImageShape.                                                      *)
C2_WhitespaceTokensPositive ==
    ShapeQueried =>
        LET toks == Tokens(idStdout)
            good == /\ idPhase = "parsed"
                    /\ \A i \in 1..Len(idStdout) : idStdout[i] # 255
                    /\ Len(toks) >= 2
                    /\ parse_usize(toks[1]).ok /\ parse_usize(toks[1]).val > 0
                    /\ parse_usize(toks[2]).ok /\ parse_usize(toks[2]).val > 0
        IN /\ shapeRes.ok <=> good
           /\ shapeRes.ok =>
                shapeRes.val = <<parse_usize(toks[1]).val, parse_usize(toks[2]).val>>
           /\ ~shapeRes.ok => shapeRes = Err("InvalidImageShape")

(* An optional '+' followed by one or more decimal digits *)
Numeral(x) ==
    LET d == IF x # <<>> /\ x[1] = 43 THEN Tail(x) ELSE x
    IN d # <<>> /\ \A i \in 1..Len(d) : d[i] \in 48..57

RECURSIVE DecimalValue(_)
DecimalValue(x) ==
    IF x = <<>> THEN 0
    ELSE IF x[1] = 43 THEN DecimalValue(Tail(x))
    ELSE DecimalValue(SubSeq(x, 1, Len(x) - 1)) * 10 + (x[Len(x)] - 48)

(* The numbers a piece of text denotes: the piece is a numeral with        *)
(* nothing but whitespace around it                                        *)
PieceValues(piece) ==
    { DecimalValue(SubSeq(piece, a, b)) : <<a, b>> \in
        { ab \in (1..Len(piece)) \X (1..Len(piece)) :
            /\ ab[1] <= ab[2]
            /\ Numeral(SubSeq(piece, ab[1], ab[2]))
            /\ \A k \in 1..(ab[1] - 1) : IsWhitespace(piece[k])
            /\ \A k \in (ab[2] + 1)..Len(piece) : IsWhitespace(piece[k]) } }

(* The shapes a text denotes: the text up to its first space and the text  *)
(* from there to the next space (or to the end) each denote a number       *)
ShapesOf(s) ==
    { <<w, h>> : <<w, h>> \in UNION
        { PieceValues(SubSeq(s, 1, i - 1)) \X PieceValues(SubSeq(s, i + 1, j - 1)) :
            <<i, j>> \in
              { ij \in (1..Len(s)) \X (1..(Len(s) + 1)) :
                  /\ ij[1] < ij[2]
                  /\ s[ij[1]] = 32
                  /\ \A k \in 1..(ij[1] - 1) : s[k] # 32
                  /\ \A k \in (ij[1] + 1)..(ij[2] - 1) : s[k] # 32
                  /\ (ij[2] <= Len(s) => s[ij[2]] = 32) } } }

(* C2, amended: the shape query succeeds exactly when identify ran, its    *)
(* output is UTF-8, the output holds a space character, and the text       *)
(* before the first space and the text between it and the next space (or   *)
(* the end) are each, once surrounding whitespace is removed, an optional  *)
(* '+' and decimal digits (zero included); these two numbers are the       *)
(* shape, later pieces are ignored, every failure is InvalidImageShape.    *)
C2_SpaceSeparatedUnsigned ==
    ShapeQueried =>
        LET good == /\ idPhase = "parsed"
                    /\ \A i \in 1..Len(idStdout) : idStdout[i] # 255
                    /\ ShapesOf(idStdout) # {}
        IN /\ shapeRes.ok <=> good
           /\ shapeRes.ok => ShapesOf(idStdout) = {shapeRes.val}
           /\ ~shapeRes.ok => shapeRes = Err("InvalidImageShape")

(* C2 witness: identify printed "0 2" and the query returned (0, 2) *)
C2_Witness ==
    idPhase = "parsed" /\ idStdout = <<48, 32, 50>> /\ shapeRes = Ok(<<0, 2>>)

(* C3: read runs identify first; a failed shape query is returned as it is *)
(* (InvalidImageShape) with no convert started; after a successful query a *)
(* convert that cannot be run gives InvalidImageData and no buffer.        *)
C3_ShapeQueryFirst ==
    InCall("read") =>
        /\ \A i \in 1..Len(log) :
             log[i].tool = "convert" =>
                 i = 2 /\ log[1].tool = "identify" /\ log[1].ran /\ shape # <<>>
        /\ (pc = "done" /\ shape = <<>>) =>
               result = Err("InvalidImageShape") /\ Len(log) = 1
        /\ (pc = "done" /\ shape # <<>>) =>
               /\ Len(log) = 2
               /\ ~log[2].ran => result = Err("InvalidImageData")
               /\ log[2].ran => result.ok /\ result.val.width = shape[1]
                                          /\ result.val.height = shape[2]

(* C3 witness: the shape was read but convert could not be run *)
C3_Witness ==
    /\ InCall("read") /\ pc = "done" /\ shape = <<2, 2>>
    /\ Len(log) = 2 /\ ~log[2].ran /\ result = Err("InvalidImageData")

Spawned == proc.spawned

(* C4: write gives UnableToExecuteCommand when convert cannot be spawned,  *)
(* ErrorWritingImage when the image bytes cannot all be written,           *)
(* UnableToExecuteCommand when waiting fails and Ok otherwise, whatever    *)
(* the exit status; encode likewise, plus InvalidImageData when standard   *)
(* output cannot be read.                                                  *)
C4_WriteOutcomes ==
    (pc = "done" /\ call.op \in {"write", "encode"}) =>
        IF ~log[1].ran THEN result = Err("UnableToExecuteCommand")
        ELSE IF written < buffer_len THEN result = Err("ErrorWritingImage")
        ELSE IF proc.waitFailed THEN result = Err("UnableToExecuteCommand")
        ELSE IF call.op = "encode" /\ proc.readFailed THEN result = Err("InvalidImageData")
        ELSE IF call.op = "write" THEN result = Ok("unit")
        ELSE result.ok

(* C4 witness: the tool exited with status 1 and write returned Ok(()) *)
C4_Witness ==
    /\ InCall("write") /\ pc = "done"
    /\ Spawned /\ proc.exited /\ proc.code = 1 /\ ~proc.waitFailed
    /\ written = buffer_len /\ result = Ok("unit")

Bits(T) == CASE T = U8 -> "8" [] T = U16 -> "16" [] T = F32 -> "32"

FloatDefine(T) ==
    IF T = F32 THEN <<"-define", "quantum:format=floating-point">> ELSE <<>>

(* C5: the argument vectors are                                            *)
(*   read    convert-prefix, path, -depth, bits, [float define], "<C>:-"   *)
(*   write   convert-prefix, -depth, bits, [float define], -size, WxH,     *)
(*           "<C>:-", path                                                 *)
(*   encode  as write, ending in "<format>:-" instead of the path          *)
(* and so depend on the profile, T, C, the path or format and the shape    *)
(* only.                                                                   *)
C5_ArgumentVectors ==
    \A i \in 1..Len(log) :
        log[i].tool = "convert" =>
            log[i].argv =
                CASE call.op = "read" ->
                       log[i].used.convert \o <<call.path, "-depth", Bits(call.T)>>
                           \o FloatDefine(call.T) \o <<call.C.name \o ":-">>
                  [] call.op = "write" ->
                       log[i].used.convert \o <<"-depth", Bits(call.T)>>
                           \o FloatDefine(call.T)
                           \o <<"-size", ToString(call.image.width) \o "x"
                                             \o ToString(call.image.height)>>
                           \o <<call.C.name \o ":-", call.path>>
                  [] call.op = "encode" ->
                       log[i].used.convert \o <<"-depth", Bits(call.T)>>
                           \o FloatDefine(call.T)
                           \o <<"-size", ToString(call.image.width) \o "x"
                                             \o ToString(call.image.height)>>
                           \o <<call.C.name \o ":-", call.path \o ":-">>

(* C5 witness: GM.write of a 1x1 f32 gray image *)
C5_Witness ==
    /\ InCall("write") /\ Len(log) = 1
    /\ log[1].argv = <<"gm", "convert", "-depth", "32", "-define",
                       "quantum:format=floating-point", "-size", "1x1", "gray:-",
                       "a.png">>
(* the arguments of an argv that follow a prefix *)
After(prefix, argv) == SubSeq(argv, Len(prefix) + 1, Len(argv))

StartsWith(prefix, argv) ==
    Len(argv) >= Len(prefix) /\ SubSeq(argv, 1, Len(prefix)) = prefix

(* the argv the running call builds for a tool, were its receiver `m` *)
ArgvUnder(m, tool) ==
    CASE tool = "identify" -> identify_argv(m, call.path)
      [] call.op = "read" -> read_argv(m, call.path, call.T, call.C)
      [] call.op = "write" -> write_argv(m, call.path, call.T, call.C, call.image)
      [] call.op = "encode" -> encode_argv(m, call.path, call.T, call.C, call.image)

PrefixOf(m, tool) == IF tool = "identify" THEN m.identify ELSE m.convert

(* C6: a free-function call that no set_default has interrupted starts     *)
(* its subprocesses with the prefixes of the preset last given to          *)
(* set_default, and what follows the prefix is what it would be under      *)
(* either preset.                                                          *)
C6_DefaultPrefixOnly ==
    \A i \in 1..Len(log) :
        (call.free /\ ~log[i].raced) =>
            /\ StartsWith(PrefixOf(log[i].default, log[i].tool), log[i].argv)
            /\ After(PrefixOf(log[i].default, log[i].tool), log[i].argv)
                 = After(PrefixOf(IM, log[i].tool), ArgvUnder(IM, log[i].tool))
            /\ After(PrefixOf(log[i].default, log[i].tool), log[i].argv)
                 = After(PrefixOf(GM, log[i].tool), ArgvUnder(GM, log[i].tool))

(* C6 witness: after set_default(GM) the free write starts gm convert *)
C6_Witness ==
    /\ InCall("write") /\ call.free /\ Len(log) = 1
    /\ ~log[1].raced /\ log[1].default = GM
    /\ StartsWith(<<"gm", "convert", "-depth">>, log[1].argv)

(* C7: once the Webcam is started, every frame the device delivers comes   *)
(* back from capture() as one buffer of shape (width, height, 3), width    *)
(* and height being the ones the Webcam was opened with.                   *)
C7_CaptureShape ==
    cam # None =>
        /\ Cardinality({i \in 1..Len(captures) : captures[i].ok}) = frames
        /\ \A i \in 1..Len(captures) :
             captures[i].ok =>
                 ImageBuf_shape(captures[i].val, Rgb) = <<cam.width, cam.height, 3>>

(* C7 witness: a 1x2 Webcam has captured three frames *)
C7_Witness ==
    /\ cam # None /\ cam.width = 1 /\ cam.height = 2
    /\ frames = 3 /\ Len(captures) = 3

(* C8: write and encode hand the whole buffer to the child's standard      *)
(* input and close it before they start to wait; a failed write returns    *)
(* ErrorWritingImage and never waits.                                      *)
C8_CloseBeforeWait ==
    /\ waited => (Spawned /\ ~proc.stdinOpen /\ written = buffer_len)
    /\ (pc = "done" /\ Spawned /\ written < buffer_len) =>
           (result = Err("ErrorWritingImage") /\ ~waited)

(* C8 witness: waiting for a child that is still running, input closed *)
C8_Witness ==
    /\ pc = "wait" /\ waited /\ buffer_len > 0
    /\ ~proc.exited /\ ~proc.stdinOpen

(* C9: an encode that waits for a well-behaved tool gets past the wait. *)
C9_EncodeReturns ==
    (pc = "wait" /\ call.op = "encode" /\ ~proc.crashed)
        ~> (pc \in {"drain", "done", "idle"} \/ (Spawned /\ proc.crashed))

(* C10: the identify and the convert that one free-function read starts    *)
(* carry the prefixes of one and the same preset.                          *)
C10_OnePresetPerRead ==
    (InCall("read") /\ call.free /\ Len(log) = 2) =>
        \E m \in Presets :
            /\ StartsWith(m.identify, log[1].argv)
            /\ StartsWith(m.convert, log[2].argv)

====
